---------------------------- MODULE Spec2Model ----------------------------
(***************************************************************************)
(* Louis-Wiki: the WikiLibrary graph engine of src/src/wiki_library.ts.    *)
(*                                                                         *)
(* Objects (Node, SCC) live in two heaps, N and S, and are referred to by  *)
(* their index; 0 stands for null / undefined / an empty array slot.       *)
(* The four tables of WikiLibrary are insertion-ordered key/value lists,   *)
(* as JavaScript objects with string keys are.                             *)
(***************************************************************************)
EXTENDS Integers, Sequences, FiniteSets, TLC

VARIABLES
    N,             \* heap of Node objects
    S,             \* heap of SCC objects
    nodes,         \* WikiLibrary.nodes
    SCCs,          \* WikiLibrary.SCCs
    outerTagRefs,  \* WikiLibrary.outerTagRefs
    duplicated,    \* WikiLibrary.duplicated
    phase,         \* where initialize() stands
    outcome,       \* how the last operation ended
    answer,        \* what the similarity dialog of the last addNewEntry returned
    budget,        \* notes the vault may still take
    calls          \* the addNewEntry calls that are suspended at an await

vars == <<N, S, nodes, SCCs, outerTagRefs, duplicated, phase, outcome, answer, budget, calls>>

-----------------------------------------------------------------------------
(* Bounds and input sets *)

\* documents in the vault when the plugin is loaded
MaxDocs == 2

\* documents in the vault plus addNewEntry calls
MaxNodes == 4

\* documents of a vault that is only started up, with no insertion after
MaxStartDocs == 4

Tags == {"a", "b", "c"}

\* wiki-tags that appear in the larger vaults
StartTags == Tags \cup {"d"}

NoteTypes == {"wiki", "category"}

Answers == {"proceed", "cancel", "dismiss"}

Hole == 0

\* the key a missing wiki-tag field becomes: `undefined in nodes` and
\* nodes[undefined] use the string "undefined"
Undefined == "undefined"

-----------------------------------------------------------------------------
(* JavaScript arrays, sets and objects *)

Min(x, y) == IF x < y THEN x ELSE y

Range(s) == {s[i] : i \in 1..Len(s)}

includes(arr, x) == \E i \in 1..Len(arr) : arr[i] = x

\* Array.prototype.indexOf, 0 when absent (JavaScript: -1)
indexOf(arr, x) ==
    IF includes(arr, x) THEN CHOOSE i \in 1..Len(arr) : arr[i] = x /\ \A j \in 1..(i-1) : arr[j] # x
    ELSE 0

\* utils.delete_element: `delete arr[arr.indexOf(element)]` leaves an empty
\* slot and keeps the length; deleting index -1 does nothing.
delete_element(arr, element) ==
    LET i == indexOf(arr, element)
    IN  IF i = 0 THEN arr ELSE [arr EXCEPT ![i] = Hole]

\* Array.from(new Set(arr)): first occurrences, in order; an empty slot is
\* read as undefined and kept as one element.
RECURSIVE uniq(_, _)
uniq(arr, acc) ==
    IF arr = <<>> THEN acc
    ELSE uniq(Tail(arr), IF includes(acc, Head(arr)) THEN acc ELSE Append(acc, Head(arr)))

\* `k in obj`
Has(tbl, k) == \E i \in 1..Len(tbl) : tbl[i].k = k

\* obj[k]
Get(tbl, k) == tbl[CHOOSE i \in 1..Len(tbl) : tbl[i].k = k].v

\* obj[k] = v : an existing key keeps its place, a new key goes last
Put(tbl, k, v) ==
    IF Has(tbl, k)
    THEN [i \in 1..Len(tbl) |-> IF tbl[i].k = k THEN [k |-> k, v |-> v] ELSE tbl[i]]
    ELSE Append(tbl, [k |-> k, v |-> v])

\* delete obj[k]
Del(tbl, k) == SelectSeq(tbl, LAMBDA e : e.k # k)

Keys(tbl) == {tbl[i].k : i \in 1..Len(tbl)}

Values(tbl) == {tbl[i].v : i \in 1..Len(tbl)}

\* '#'+wiki_tag
Sigil(t) == "#" \o t

-----------------------------------------------------------------------------
(* Documents of the vault *)

\* tags fields of the documents found at start-up, written without sigil
TagLists ==
    {<<>>, <<"a">>, <<"b">>, <<"c">>, <<"a", "b">>, <<"a", "c">>, <<"b", "c">>}

\* tags typed into the new-entry prompt
NewTagLists == {<<>>, <<"a">>, <<"b">>, <<"c">>}

\* aliases fields of the documents found at start-up
AliasLists == {<<>>}

\* wiki notes with any of the tag lists, category notes at the top
Docs ==
    [wiki_tag : Tags, tags : TagLists, aliases : AliasLists, note_type : {"wiki"},
     frontmatter : {TRUE}]
    \cup [wiki_tag : Tags, tags : {<<>>}, aliases : AliasLists,
          note_type : NoteTypes \ {"wiki"}, frontmatter : {TRUE}]

\* Identifiers carry no meaning of their own, so the inputs name them in
\* this order: a new identifier is the first one not named before.
Order == <<"a", "b", "c", "d">>

Nameable(used, x) ==
    IF x \in used THEN TRUE
    ELSE \A i \in 1..Len(Order) : \A j \in 1..(i-1) : Order[i] # x \/ Order[j] \in used

RECURSIVE NamedInOrder(_, _)
NamedInOrder(used, ids) ==
    IF ids = <<>> THEN TRUE
    ELSE /\ Nameable(used, Head(ids))
         /\ NamedInOrder(used \cup {Head(ids)}, Tail(ids))

\* the identifiers of a vault in reading order: wiki-tag, then tags
RECURSIVE Idents(_)
Idents(v) ==
    IF v = <<>> THEN <<>> ELSE <<Head(v).wiki_tag>> \o Head(v).tags \o Idents(Tail(v))

\* Vaults of at most MaxDocs documents, in enumeration order
Vaults ==
    {v \in UNION {[1..n -> Docs] : n \in 0..MaxDocs} : NamedInOrder({}, Idents(v))}

-----------------------------------------------------------------------------
(* class Node *)

\* Node.createAsync + init_frontmatter_and_inherit_tags
NewNode(wiki_tag, tags, aliases, note_type) ==
    [wiki_tag |-> wiki_tag, tags |-> tags, aliases |-> aliases, note_type |-> note_type,
     file_tags |-> tags,
     inheritTags |-> {}, original_inheritTags |-> {}, frontmatter_modified |-> FALSE,
     parents |-> <<>>, children |-> <<>>, scc |-> 0]

\* interface SCC
NewSCC(members, pseudo_wiki_tag) ==
    [nodes |-> members, parents |-> <<>>, children |-> <<>>, pseudo_wiki_tag |-> pseudo_wiki_tag]

\* the fields of WikiLibrary, with the pending exception if any
Lib == [N |-> N, S |-> S, nodes |-> nodes, SCCs |-> SCCs,
        outerTagRefs |-> outerTagRefs, duplicated |-> duplicated, err |-> ""]

-----------------------------------------------------------------------------
(* WikiLibrary.init_graph *)

\* add_node_rec: index the documents by wiki-tag, moving a repeated
\* identifier to the duplicate table; Node.createAsync throws on a document
\* whose header parses to nothing (line 54)
RECURSIVE add_node_rec(_, _, _)
add_node_rec(L, vault, i) ==
    IF i > Len(vault) THEN L
    ELSE IF ~vault[i].frontmatter THEN [L EXCEPT !.err = "Error"]
    ELSE LET d  == vault[i]
             w  == d.wiki_tag
             id == Len(L.N) + 1
             L0 == [L EXCEPT !.N = Append(@, NewNode(w, d.tags, d.aliases, d.note_type))]
             L1 == IF Has(L0.duplicated, w)
                   THEN [L0 EXCEPT !.duplicated = Put(@, w, Append(Get(@, w), id))]
                   ELSE IF Has(L0.nodes, w)
                   THEN [L0 EXCEPT !.duplicated = Put(@, w, <<Get(L0.nodes, w), id>>),
                                   !.nodes = Del(@, w)]
                   ELSE [L0 EXCEPT !.nodes = Put(@, w, id)]
         IN  add_node_rec(L1, vault, i + 1)

\* one node of "Initialize graph edges between nodes": a tag that resolves
\* becomes a parent/child edge, any other tag an outer reference
RECURSIVE link_tags(_, _, _)
link_tags(L, n, i) ==
    IF i > Len(L.N[n].tags) THEN L
    ELSE LET tag == L.N[n].tags[i]
         IN  IF Has(L.nodes, tag)
             THEN LET p  == Get(L.nodes, tag)
                      N1 == [L.N EXCEPT ![n].parents = Append(@, p)]
                      N2 == [N1 EXCEPT ![p].children = Append(@, n)]
                  IN  link_tags([L EXCEPT !.N = N2], n, i + 1)
             ELSE LET refs == IF Has(L.outerTagRefs, tag)
                              THEN Append(Get(L.outerTagRefs, tag), n)
                              ELSE <<n>>
                  IN  link_tags([L EXCEPT !.outerTagRefs = Put(@, tag, refs)], n, i + 1)

RECURSIVE init_edges(_, _)
init_edges(L, k) ==
    IF k > Len(L.nodes) THEN L
    ELSE init_edges(link_tags(L, L.nodes[k].v, 1), k + 1)

\* the state of one run of Tarjan's algorithm; indices and low_links are
\* keyed by identifier, -1 for an absent key
NewTarjan(heap) ==
    [index_counter |-> 0, stack |-> <<>>, on_stack |-> {},
     low_links |-> [t \in StartTags \cup {Undefined} |-> -1],
     indices |-> [t \in StartTags \cup {Undefined} |-> -1],
     S |-> heap, SCCs |-> <<>>, err |-> ""]

\* "pop the stack and generate an SCC"
\* "low_links[wiki_tag] = Math.min(low_links[wiki_tag], low_links[parent])"
sc_lower(T, w, pw) == [T EXCEPT !.low_links[w] = Min(@, T.low_links[pw])]

RECURSIVE sc_pop(_, _, _, _)
sc_pop(T, ntbl, wiki_tag, members) ==
    IF T.stack = <<>> THEN [T EXCEPT !.err = "stack underflow"]
    ELSE LET w  == T.stack[Len(T.stack)]
             T1 == [T EXCEPT !.stack = SubSeq(@, 1, Len(@) - 1), !.on_stack = @ \ {w}]
             m  == Append(members, Get(ntbl, w))
         IN  IF w = wiki_tag
             THEN [T1 EXCEPT !.S = Append(@, NewSCC(m, wiki_tag)),
                             !.SCCs = Put(@, wiki_tag, Len(T1.S) + 1)]
             ELSE sc_pop(T1, ntbl, wiki_tag, m)

\* "if (low_links[wiki_tag] === indices[wiki_tag])"
sc_root(T, ntbl, w) ==
    IF T.err # "" THEN T
    ELSE IF T.low_links[w] = T.indices[w] THEN sc_pop(T, ntbl, w, <<>>)
    ELSE T

\* the first lines of strong_connect
sc_enter(T, w) ==
    [T EXCEPT !.indices[w] = T.index_counter,
              !.low_links[w] = T.index_counter,
              !.index_counter = @ + 1,
              !.stack = Append(@, w),
              !.on_stack = @ \cup {w}]

RECURSIVE strong_connect(_, _, _, _), sc_parents(_, _, _, _, _)
strong_connect(T, NN, ntbl, n) ==
    sc_root(sc_parents(sc_enter(T, NN[n].wiki_tag), NN, ntbl, n, 1), ntbl, NN[n].wiki_tag)

sc_parents(T, NN, ntbl, n, i) ==
    IF T.err # "" \/ i > Len(NN[n].parents) THEN T
    ELSE LET w  == NN[n].wiki_tag
             p  == NN[n].parents[i]
             pw == NN[p].wiki_tag
         IN  IF T.indices[pw] = -1
             THEN sc_parents(sc_lower(strong_connect(T, NN, ntbl, p), w, pw),
                             NN, ntbl, n, i + 1)
             ELSE IF pw \in T.on_stack
             THEN sc_parents([T EXCEPT !.low_links[w] = Min(@, T.indices[pw])],
                             NN, ntbl, n, i + 1)
             ELSE sc_parents(T, NN, ntbl, n, i + 1)

\* "for (const wiki_tag in nodes) if (!(wiki_tag in indices)) strong_connect"
RECURSIVE find_sccs(_, _, _, _)
find_sccs(T, NN, ntbl, k) ==
    IF T.err # "" \/ k > Len(ntbl) THEN T
    ELSE IF T.indices[ntbl[k].k] = -1
    THEN find_sccs(strong_connect(T, NN, ntbl, ntbl[k].v), NN, ntbl, k + 1)
    ELSE find_sccs(T, NN, ntbl, k + 1)

\* "Assign SCCs to nodes"
assign_sccs(NN, SS, stbl) ==
    [n \in 1..Len(NN) |->
        IF \E k \in 1..Len(stbl) : includes(SS[stbl[k].v].nodes, n)
        THEN [NN[n] EXCEPT !.scc = stbl[CHOOSE k \in 1..Len(stbl) : includes(SS[stbl[k].v].nodes, n)].v]
        ELSE NN[n]]

\* the SCCs of a list of nodes, as the loop body of "Initializing SCC
\* edges" collects them for one member
neighbourSCCs(NN, SS, s, nbrs, field) ==
    LET sccOf == [i \in 1..Len(nbrs) |-> NN[nbrs[i]].scc]
    IN  SelectSeq(sccOf, LAMBDA x : x # s /\ ~includes(SS[x][field], s))

RECURSIVE scc_edges_members(_, _, _, _), init_scc_edges(_, _, _, _)
scc_edges_members(NN, SS, s, j) ==
    IF j > Len(SS[s].nodes) THEN SS
    ELSE LET n  == SS[s].nodes[j]
             ps == neighbourSCCs(NN, SS, s, NN[n].parents, "parents")
             cs == neighbourSCCs(NN, SS, s, NN[n].children, "children")
         IN  scc_edges_members(NN, [SS EXCEPT ![s].parents = ps, ![s].children = cs], s, j + 1)

init_scc_edges(NN, SS, stbl, k) ==
    IF k > Len(stbl) THEN SS
    ELSE init_scc_edges(NN, scc_edges_members(NN, SS, stbl[k].v, 1), stbl, k + 1)

\* "this.SCCs = SCCs", then "Assign SCCs to nodes" and "Initializing SCC
\* edges" on the components T found
install_sccs(L, T) ==
    [L EXCEPT !.N = assign_sccs(L.N, T.S, T.SCCs),
              !.S = init_scc_edges(assign_sccs(L.N, T.S, T.SCCs), T.S, T.SCCs, 1),
              !.SCCs = T.SCCs,
              !.err = T.err]

\* "Finding strong connected components (Tarjan algorithm)" and what follows
init_sccs(L) == install_sccs(L, find_sccs(NewTarjan(L.S), L.N, L.nodes, 1))

\* init_graph after add_node_rec: an exception thrown there leaves the
\* fields of the library as they were
init_scanned(L, scanned) ==
    IF scanned.err # "" THEN [L EXCEPT !.err = scanned.err]
    ELSE init_sccs(init_edges(scanned, 1))

init_graph(L, vault) ==
    init_scanned(L, add_node_rec([L EXCEPT !.nodes = <<>>, !.duplicated = <<>>], vault, 1))

-----------------------------------------------------------------------------
(* Tag inheritance *)

\* utils.equal on two sets of identifiers
equal(a, b) == a = b

\* every tag handed down is taken, explicit or not
add_inherit_tags_unfiltered(node, tags) ==
    [node EXCEPT !.inheritTags = @ \cup tags]

\* Node.add_inherit_tags
add_inherit_tags(node, tags) ==
    [node EXCEPT !.inheritTags = @ \cup {t \in tags : ~includes(node.tags, t)}]

\* "if (!this.frontmatter_modified && !inheritTags_modified) return": whether
\* save_frontmatter_and_inherit_tags goes on to read and write the file
save_needed(node) ==
    node.frontmatter_modified \/ ~equal(node.inheritTags, node.original_inheritTags)

\* save_frontmatter_and_inherit_tags from "await this.file.vault.read" on
save_write(node) ==
    [node EXCEPT !.file_tags = node.tags,
                 !.frontmatter_modified = FALSE,
                 !.original_inheritTags = node.inheritTags,
                 !.inheritTags = {}]

\* Node.save_frontmatter_and_inherit_tags
save_frontmatter_and_inherit_tags(node) ==
    LET inheritTags_modified == ~equal(node.inheritTags, node.original_inheritTags)
    IN  IF ~node.frontmatter_modified /\ ~inheritTags_modified THEN node
        ELSE [node EXCEPT !.file_tags = node.tags,
                          !.frontmatter_modified = FALSE,
                          !.original_inheritTags = node.inheritTags,
                          !.inheritTags = {}]

\* "Inside SCC, share all tags": the loop over scc.nodes from member j on;
\* an empty slot is read as undefined and node.file throws
RECURSIVE inherit_members(_, _, _, _, _)
inherit_members(L, s, inheritTags, save, j) ==
    IF j > Len(L.S[s].nodes) THEN L
    ELSE LET n == L.S[s].nodes[j]
         IN  IF n = Hole THEN [L EXCEPT !.err = "TypeError"]
             ELSE LET n1 == add_inherit_tags(L.N[n], inheritTags)
                      n2 == IF save THEN save_frontmatter_and_inherit_tags(n1) ELSE n1
                  IN  inherit_members([L EXCEPT !.N[n] = n2], s, inheritTags, save, j + 1)

\* apply_tag_inheritance_rec; path holds the components of the calls in
\* progress: reaching one of them again repeats the same calls for ever
RECURSIVE apply_tag_inheritance_rec(_, _, _, _, _), inherit_children(_, _, _, _, _, _)

\* the identifiers of the component are not added to what is handed down
apply_tag_inheritance_rec_unspread(L, s, inheritTags, save, path) ==
    IF s = Hole THEN [L EXCEPT !.err = "TypeError"]
    ELSE IF s \in path THEN [L EXCEPT !.err = "diverges"]
    ELSE inherit_children(inherit_members(L, s, inheritTags, save, 1),
                          s, inheritTags, save, path \cup {s}, 1)

apply_tag_inheritance_rec(L, s, inheritTags, save, path) ==
    IF s = Hole THEN [L EXCEPT !.err = "TypeError"]
    ELSE IF s \in path THEN [L EXCEPT !.err = "diverges"]
    ELSE LET own == {L.N[n].wiki_tag : n \in Range(L.S[s].nodes) \ {Hole}}
         IN  inherit_children(inherit_members(L, s, inheritTags, save, 1),
                              s, inheritTags \cup own, save, path \cup {s}, 1)

inherit_children(L, s, inheritTags, save, path, i) ==
    IF L.err # "" \/ i > Len(L.S[s].children) THEN L
    ELSE inherit_children(
             apply_tag_inheritance_rec(L, L.S[s].children[i], inheritTags, save, path),
             s, inheritTags, save, path, i + 1)

RECURSIVE inherit_roots(_, _, _, _)
inherit_roots(L, roots, save, k) ==
    IF L.err # "" \/ k > Len(roots) THEN L
    ELSE inherit_roots(apply_tag_inheritance_rec(L, roots[k].v, {}, save, {}), roots, save, k + 1)

\* WikiLibrary.apply_tag_inheritance
apply_tag_inheritance(L, save) ==
    LET inTable == Values(L.nodes)
        N1 == [n \in 1..Len(L.N) |->
                  IF n \in inTable THEN [L.N[n] EXCEPT !.inheritTags = {}] ELSE L.N[n]]
        roots == SelectSeq(L.SCCs, LAMBDA e : Len(L.S[e.v].parents) = 0)
    IN  inherit_roots([L EXCEPT !.N = N1], roots, save, 1)

-----------------------------------------------------------------------------
(* WikiLibrary.similarityAnalyze *)

\* a similarity is the fraction num/den, or NaN (0/0)
Frac(num, den) == [nan |-> den = 0, num |-> num, den |-> IF den = 0 THEN 1 ELSE den]

\* Math.max(similarity, p/q) for 0 <= similarity
MathMax(sim, p, q) ==
    IF sim.nan THEN sim
    ELSE IF sim.num * q >= p * sim.den THEN sim ELSE Frac(p, q)

\* a > b ; false when either side is NaN
Greater(a, b) == ~a.nan /\ ~b.nan /\ a.num * b.den > b.num * a.den

similarityInfo(L, n, wiki_tag, aliases, titleEntities) ==
    LET fm   == L.N[n]
        both == fm.tags \o fm.aliases
        setA == Range(titleEntities)
        setB == Range(both)
        intersection == setA \cap setB
        raw  == Frac(Cardinality(intersection), Min(Cardinality(setA), Cardinality(setB)))
        sim  == IF wiki_tag = fm.wiki_tag THEN MathMax(raw, 1, 1)
                ELSE IF includes(both, wiki_tag) \/ includes(aliases, fm.wiki_tag)
                THEN MathMax(raw, 7, 10)
                ELSE raw
    IN  [fm |-> n, similarity |-> sim, intersection_size |-> Cardinality(intersection)]

\* Array.prototype.sort with (a, b) => b.similarity - a.similarity: stable,
\* an element moves in front of those it is strictly greater than
RECURSIVE insert_sorted(_, _)
insert_sorted(sorted, x) ==
    IF sorted = <<>> THEN <<x>>
    ELSE LET last == sorted[Len(sorted)]
         IN  IF Greater(x.similarity, last.similarity)
             THEN Append(insert_sorted(SubSeq(sorted, 1, Len(sorted) - 1), x), last)
             ELSE Append(sorted, x)

RECURSIVE sort_by_similarity(_, _)
sort_by_similarity(infos, acc) ==
    IF infos = <<>> THEN acc
    ELSE sort_by_similarity(Tail(infos), insert_sorted(acc, Head(infos)))

similarityAnalyze(L, wiki_tag, aliases, titleEntities) ==
    LET infos == [k \in 1..Len(L.nodes) |->
                     similarityInfo(L, L.nodes[k].v, wiki_tag, aliases, titleEntities)]
    IN  SelectSeq(sort_by_similarity(infos, <<>>),
                  LAMBDA item : Greater(item.similarity, Frac(1, 2)) \/ item.intersection_size > 1)

\* foundMultipleSimilarNotesPrompt: Continue resolves true, Cancel resolves
\* false, closing the dialog rejects and the rejection is turned into null
foundMultipleSimilarNotesPrompt(dialog) ==
    CASE dialog = "proceed" -> "true"
      [] dialog = "cancel"  -> "false"
      [] OTHER              -> "null"

-----------------------------------------------------------------------------
(* WikiLibrary.addNewEntry *)

TypeError(L) == [L EXCEPT !.err = "TypeError"]

\* "for (const parent of nodeAlreadyExists.parents) delete_element(parent.children, ...)"
RECURSIVE detach_from_parents(_, _, _), detach_from_children(_, _, _)
detach_from_parents(L, e, i) ==
    IF L.err # "" THEN L
    ELSE IF i > Len(L.N[e].parents) THEN L
    ELSE LET p == L.N[e].parents[i]
         IN  IF p = Hole THEN TypeError(L)
             ELSE detach_from_parents([L EXCEPT !.N[p].children = delete_element(@, e)], e, i + 1)

detach_from_children(L, e, i) ==
    IF L.err # "" THEN L
    ELSE IF i > Len(L.N[e].children) THEN L
    ELSE LET c == L.N[e].children[i]
         IN  IF c = Hole THEN TypeError(L)
             ELSE detach_from_children([L EXCEPT !.N[c].parents = delete_element(@, e)], e, i + 1)

\* the same two loops over existingSCC.parents and existingSCC.children
RECURSIVE detach_scc_from_parents(_, _, _), detach_scc_from_children(_, _, _)
detach_scc_from_parents(L, s, i) ==
    IF L.err # "" THEN L
    ELSE IF i > Len(L.S[s].parents) THEN L
    ELSE LET p == L.S[s].parents[i]
         IN  IF p = Hole THEN TypeError(L)
             ELSE detach_scc_from_parents([L EXCEPT !.S[p].children = delete_element(@, s)], s, i + 1)

detach_scc_from_children(L, s, i) ==
    IF L.err # "" THEN L
    ELSE IF i > Len(L.S[s].children) THEN L
    ELSE LET c == L.S[s].children[i]
         IN  IF c = Hole THEN TypeError(L)
             ELSE detach_scc_from_children([L EXCEPT !.S[c].parents = delete_element(@, s)], s, i + 1)

\* "duplicated wiki tag" branch; newNode is already in the heap
\* "delete this.SCCs[existingSCC.pseudo_wiki_tag]"
delete_scc(L, s) ==
    IF L.err # "" THEN L
    ELSE [L EXCEPT !.SCCs = Del(@, L.S[s].pseudo_wiki_tag)]

\* "if (existingSCC.nodes.length == 1) ... else delete_element(existingSCC.nodes, ...)"
leave_scc(L, e, existingSCC) ==
    IF L.err # "" THEN L
    ELSE IF Len(L.S[existingSCC].nodes) = 1
    THEN delete_scc(detach_scc_from_children(detach_scc_from_parents(L, existingSCC, 1),
                                             existingSCC, 1),
                    existingSCC)
    ELSE [L EXCEPT !.S[existingSCC].nodes = delete_element(@, e)]

\* "delete this.nodes[wiki_tag]; this.duplicated[wiki_tag] = [nodeAlreadyExists, newNode]"
move_to_duplicated(L, wiki_tag, e, newNode) ==
    IF L.err # "" THEN L
    ELSE [L EXCEPT !.nodes = Del(@, wiki_tag),
                   !.duplicated = Put(@, wiki_tag, <<e, newNode>>)]

\* "duplicated wiki tag" branch for the node nodeAlreadyExists
remove_existing(L, wiki_tag, nodeAlreadyExists, newNode) ==
    move_to_duplicated(
        leave_scc(detach_from_children(detach_from_parents(L, nodeAlreadyExists, 1),
                                       nodeAlreadyExists, 1),
                  nodeAlreadyExists, L.N[nodeAlreadyExists].scc),
        wiki_tag, nodeAlreadyExists, newNode)

\* "duplicated wiki tag" branch; newNode is already in the heap
record_duplicate(L, wiki_tag, newNode) ==
    remove_existing(L, wiki_tag, Get(L.nodes, wiki_tag), newNode)

\* "for (const parent_tag of parentTags)": promote the parent's tags
RECURSIVE promote_tags(_, _, _, _)
promote_tags(L, newNode, parentTags, j) ==
    IF j > Len(parentTags) THEN L
    ELSE LET parent_tag == parentTags[j]
         IN  IF /\ Has(L.nodes, parent_tag)
                /\ L.N[Get(L.nodes, parent_tag)].note_type # "category"
                /\ ~includes(L.N[newNode].tags, parent_tag)
             THEN promote_tags([L EXCEPT !.N[newNode].tags = Append(@, parent_tag)],
                               newNode, parentTags, j + 1)
             ELSE promote_tags(L, newNode, parentTags, j + 1)

\* "for (const uncle of parent.scc!.nodes)"
RECURSIVE link_uncles(_, _, _, _)
link_uncles(L, newNode, s, j) ==
    IF j > Len(L.S[s].nodes) THEN L
    ELSE LET uncle == L.S[s].nodes[j]
             L1 == [L EXCEPT !.N[newNode].parents = Append(@, uncle)]
         IN  IF uncle = Hole THEN TypeError(L1)
             ELSE link_uncles([L1 EXCEPT !.N[uncle].children = Append(@, newNode)],
                              newNode, s, j + 1)

\* the new component is entered twice in the child list of a parent
RECURSIVE link_new_node_twice(_, _, _, _)
link_new_node_twice(L, newNode, newSCC, i) ==
    IF L.err # "" \/ i > Len(L.N[newNode].tags) THEN L
    ELSE LET tag == L.N[newNode].tags[i]
         IN  IF ~Has(L.nodes, tag) THEN link_new_node_twice(L, newNode, newSCC, i + 1)
             ELSE LET parent == Get(L.nodes, tag)
                      pscc   == L.N[parent].scc
                      L1 == [L  EXCEPT !.S[newSCC].parents = Append(@, pscc)]
                      L2 == [L1 EXCEPT !.S[pscc].children = Append(Append(@, newSCC), newSCC)]
                      L3 == promote_tags(L2, newNode, L2.N[parent].tags, 1)
                      L4 == link_uncles(L3, newNode, pscc, 1)
                  IN  link_new_node_twice(L4, newNode, newSCC, i + 1)

\* "for (const tag of newNode.frontmatter.tags)": the array grows while
\* it is walked, so the promoted tags are walked too
RECURSIVE link_new_node(_, _, _, _)
link_new_node(L, newNode, newSCC, i) ==
    IF L.err # "" \/ i > Len(L.N[newNode].tags) THEN L
    ELSE LET tag == L.N[newNode].tags[i]
         IN  IF ~Has(L.nodes, tag) THEN link_new_node(L, newNode, newSCC, i + 1)
             ELSE LET parent == Get(L.nodes, tag)
                      pscc   == L.N[parent].scc
                      L1 == [L  EXCEPT !.S[newSCC].parents = Append(@, pscc)]
                      L2 == [L1 EXCEPT !.S[pscc].children = Append(@, newSCC)]
                      L3 == promote_tags(L2, newNode, L2.N[parent].tags, 1)
                      L4 == link_uncles(L3, newNode, pscc, 1)
                  IN  link_new_node(L4, newNode, newSCC, i + 1)

\* "for (const subscriber of this.outerTagRefs[wiki_tag])"
RECURSIVE link_subscribers(_, _, _, _, _)
link_subscribers(L, newNode, newSCC, subscribers, j) ==
    IF j > Len(subscribers) THEN L
    ELSE LET subscriber == subscribers[j]
             sscc == L.N[subscriber].scc
             L1 == [L  EXCEPT !.N[subscriber].parents = Append(@, newNode)]
             L2 == [L1 EXCEPT !.S[sscc].parents = Append(@, newSCC)]
             L3 == [L2 EXCEPT !.N[newNode].children = Append(@, subscriber)]
             L4 == [L3 EXCEPT !.S[newSCC].children = Append(@, sscc)]
         IN  link_subscribers(L4, newNode, newSCC, subscribers, j + 1)

\* the state of the second Tarjan run, over components
NewSuperTarjan ==
    [index_counter |-> 0, stack |-> <<>>, on_stack |-> {},
     low_links |-> [t \in StartTags \cup {Undefined} |-> -1],
     indices |-> [t \in StartTags \cup {Undefined} |-> -1],
     super_sccs |-> <<>>, err |-> ""]

\* the pop loop of super_strong_connect: a popped label other than the new
\* one is looked up in the SCC table
RECURSIVE super_pop(_, _, _, _, _)
super_pop(T, L, newSCC, pseudo_wiki_tag, super_scc) ==
    IF T.stack = <<>> THEN [T EXCEPT !.err = "stack underflow"]
    ELSE LET w   == T.stack[Len(T.stack)]
             T1  == [T EXCEPT !.stack = SubSeq(@, 1, Len(@) - 1), !.on_stack = @ \ {w}]
             scc == IF w = L.S[newSCC].pseudo_wiki_tag THEN newSCC
                    ELSE IF Has(L.SCCs, w) THEN Get(L.SCCs, w) ELSE Hole
             m   == Append(super_scc, scc)
         IN  IF w = pseudo_wiki_tag
             THEN [T1 EXCEPT !.super_sccs = Put(@, pseudo_wiki_tag, m)]
             ELSE super_pop(T1, L, newSCC, pseudo_wiki_tag, m)

\* "if (low_links[pseudo_wiki_tag] === indices[pseudo_wiki_tag])"
super_root(T, L, newSCC, w) ==
    IF T.err # "" THEN T
    ELSE IF T.low_links[w] = T.indices[w] THEN super_pop(T, L, newSCC, w, <<>>)
    ELSE T

RECURSIVE super_strong_connect(_, _, _, _), super_parents(_, _, _, _, _)
super_strong_connect(T, L, newSCC, scc) ==
    super_root(super_parents(sc_enter(T, L.S[scc].pseudo_wiki_tag), L, newSCC, scc, 1),
               L, newSCC, L.S[scc].pseudo_wiki_tag)

super_parents(T, L, newSCC, scc, i) ==
    IF T.err # "" \/ i > Len(L.S[scc].parents) THEN T
    ELSE LET w      == L.S[scc].pseudo_wiki_tag
             parent == L.S[scc].parents[i]
         IN  IF parent = Hole THEN [T EXCEPT !.err = "TypeError"]
             ELSE LET pw == L.S[parent].pseudo_wiki_tag
                  IN  IF T.indices[pw] = -1
                      THEN super_parents(
                               sc_lower(super_strong_connect(T, L, newSCC, parent), w, pw),
                               L, newSCC, scc, i + 1)
                      ELSE IF pw \in T.on_stack
                      THEN super_parents([T EXCEPT !.low_links[w] = Min(@, T.indices[pw])],
                                         L, newSCC, scc, i + 1)
                      ELSE super_parents(T, L, newSCC, scc, i + 1)

\* the merge loops over scc.parents and scc.children of one absorbed
\* component; M carries the library and the two sets being collected
RECURSIVE merge_parents(_, _, _, _), merge_children(_, _, _, _)
merge_parents(M, newSCC, scc, i) ==
    IF M.L.err # "" THEN M
    ELSE IF i > Len(M.L.S[scc].parents) THEN M
    ELSE LET parent == M.L.S[scc].parents[i]
             M1 == [M EXCEPT !.newParentSCCs = uniq(<<parent>>, @)]
         IN  IF parent = Hole THEN [M1 EXCEPT !.L = TypeError(@)]
             ELSE LET L1 == [M1.L EXCEPT !.S[parent].children = delete_element(@, scc)]
                      L2 == [L1 EXCEPT !.S[parent].children = Append(@, newSCC)]
                  IN  merge_parents([M1 EXCEPT !.L = L2], newSCC, scc, i + 1)

merge_children(M, newSCC, scc, i) ==
    IF M.L.err # "" THEN M
    ELSE IF i > Len(M.L.S[scc].children) THEN M
    ELSE LET child == M.L.S[scc].children[i]
             M1 == [M EXCEPT !.newChildSCCs = uniq(<<child>>, @)]
         IN  IF child = Hole THEN [M1 EXCEPT !.L = TypeError(@)]
             ELSE LET L1 == [M1.L EXCEPT !.S[child].parents = delete_element(@, scc)]
                      L2 == [L1 EXCEPT !.S[child].parents = Append(@, newSCC)]
                  IN  merge_children([M1 EXCEPT !.L = L2], newSCC, scc, i + 1)

\* "delete this.SCCs[scc.pseudo_wiki_tag]" at the end of one absorption
merge_delete(M, scc) ==
    IF M.L.err # "" THEN M
    ELSE [M EXCEPT !.L.SCCs = Del(@, M.L.S[scc].pseudo_wiki_tag)]

\* "newSCC.nodes.push(...scc.nodes)"
merge_nodes(M, newSCC, scc) ==
    [M EXCEPT !.L.S[newSCC].nodes = @ \o M.L.S[scc].nodes]

\* "for (const scc of super_scc)"
RECURSIVE merge_super_scc(_, _, _, _)
merge_super_scc(M, newSCC, super_scc, k) ==
    IF M.L.err # "" \/ k > Len(super_scc) THEN M
    ELSE LET scc == super_scc[k]
         IN  IF scc = Hole THEN [M EXCEPT !.L = TypeError(@)]
             ELSE IF scc = newSCC THEN merge_super_scc(M, newSCC, super_scc, k + 1)
             ELSE merge_super_scc(
                      merge_delete(
                          merge_children(
                              merge_parents(merge_nodes(M, newSCC, scc), newSCC, scc, 1),
                              newSCC, scc, 1),
                          scc),
                      newSCC, super_scc, k + 1)

\* "merge SCCs in super_scc"
\* "newSCC.parents = Array.from(newParentSCCs).filter(scc => !super_scc.includes(scc))",
\* and the children alike
merge_finish(M, newSCC, super_scc) ==
    IF M.L.err # "" THEN M.L
    ELSE [M.L EXCEPT
            !.S[newSCC].parents  = SelectSeq(M.newParentSCCs, LAMBDA x : ~includes(super_scc, x)),
            !.S[newSCC].children = SelectSeq(M.newChildSCCs,  LAMBDA x : ~includes(super_scc, x))]

\* "const newParentSCCs = new Set(newSCC.parents)", and the children alike
merge_start(L, newSCC) ==
    [L |-> L,
     newParentSCCs |-> uniq(L.S[newSCC].parents, <<>>),
     newChildSCCs  |-> uniq(L.S[newSCC].children, <<>>)]

\* "merge SCCs in super_scc"
merge_sccs(L, newSCC, super_scc) ==
    merge_finish(merge_super_scc(merge_start(L, newSCC), newSCC, super_scc, 1),
                 newSCC, super_scc)

\* the entry of the resolved identifier stays in the table
forget_subscribers_kept(L, wiki_tag) == L

\* "delete this.outerTagRefs[wiki_tag]"
forget_subscribers(L, wiki_tag) == [L EXCEPT !.outerTagRefs = Del(@, wiki_tag)]

\* "if (wiki_tag in this.outerTagRefs)": link the subscribers, look for a
\* closed cycle, merge, propagate from the new component
\* "const n_super_sccs = Object.keys(super_sccs).length" and the branches on it
merge_found(L, T, wiki_tag, newSCC) ==
    IF T.err # "" THEN [L EXCEPT !.err = T.err]
    ELSE IF Len(T.super_sccs) > 1 THEN [L EXCEPT !.err = "more than one Super SCCs"]
    ELSE IF Len(T.super_sccs) = 1
    THEN IF Has(T.super_sccs, wiki_tag)
         THEN merge_sccs(L, newSCC, Get(T.super_sccs, wiki_tag))
         ELSE [L EXCEPT !.err = "new wiki_tag not in Super SCC"]
    ELSE L

\* "super_strong_connect(newSCC)" and the merge of what it finds
close_cycle(L, wiki_tag, newSCC) ==
    merge_found(L, super_strong_connect(NewSuperTarjan, L, newSCC, newSCC), wiki_tag, newSCC)

\* "calculate inherit tags for newSCC ... apply_tag_inheritance_rec(newSCC, newInheritTags, true)"
propagate_from(L, newSCC) ==
    IF L.err # "" THEN L
    ELSE apply_tag_inheritance_rec(
             L, newSCC,
             UNION {L.N[n].inheritTags : n \in Range(L.S[newSCC].nodes) \ {Hole}},
             TRUE, {})

\* "if (wiki_tag in this.outerTagRefs)": link the subscribers, look for a
\* closed cycle, merge, propagate from the new component
resolve_subscribers(L, wiki_tag, newNode, newSCC) ==
    IF L.err # "" THEN L
    ELSE IF ~Has(L.outerTagRefs, wiki_tag) THEN L
    ELSE propagate_from(
             close_cycle(
                 forget_subscribers(
                     link_subscribers(L, newNode, newSCC, Get(L.outerTagRefs, wiki_tag), 1),
                     wiki_tag),
                 wiki_tag, newSCC),
             newSCC)

\* "new unique wiki tag" branch
\* "const newSCC: SCC = {...}; newNode.scc = newSCC"
add_scc(L, wiki_tag, newNode) ==
    [L EXCEPT !.S = Append(@, NewSCC(<<newNode>>, wiki_tag)),
              !.N[newNode].scc = Len(L.S) + 1]

\* variant: the registration is also done when the call has failed
register_after_error(L, wiki_tag, newNode, newSCC) ==
    [L EXCEPT !.nodes = Put(@, wiki_tag, newNode),
              !.SCCs = Put(@, wiki_tag, newSCC)]

\* "this.nodes[wiki_tag] = newNode; this.SCCs[wiki_tag] = newSCC"
register(L, wiki_tag, newNode, newSCC) ==
    IF L.err # "" THEN L
    ELSE [L EXCEPT !.nodes = Put(@, wiki_tag, newNode),
                   !.SCCs = Put(@, wiki_tag, newSCC)]

\* "new unique wiki tag" branch
insert_unique(L, wiki_tag, newNode) ==
    register(
        resolve_subscribers(
            link_new_node(add_scc(L, wiki_tag, newNode), newNode, Len(L.S) + 1, 1),
            wiki_tag, newNode, Len(L.S) + 1),
        wiki_tag, newNode, Len(L.S) + 1)

\* addNewEntry after the two early returns: create the note, then integrate it
\* "const newNode = await Node.createAsync(this, newNote)"
create_node(L, wiki_tag, aliases, tags) ==
    [L EXCEPT !.N = Append(@, NewNode(wiki_tag, <<wiki_tag>> \o tags,
                                      <<Sigil(wiki_tag)>> \o aliases, "wiki"))]

\* "if (wiki_tag in this.nodes) ... else ..." for the node just created
integrate(L, wiki_tag) ==
    IF Has(L.nodes, wiki_tag) THEN record_duplicate(L, wiki_tag, Len(L.N))
    ELSE insert_unique(L, wiki_tag, Len(L.N))

\* how the call ends: by an exception, or by "return newNote"
returned(L, result, isDuplicate) ==
    [L |-> L,
     outcome |-> IF L.err # "" THEN L.err
                 ELSE IF isDuplicate THEN "duplicate"
                 ELSE "persisted",
     result |-> result]

\* addNewEntry after the two early returns: create the note, then integrate it
create_and_integrate(L, wiki_tag, aliases, tags, result) ==
    returned(integrate(create_node(L, wiki_tag, aliases, tags), wiki_tag),
             result, Has(L.nodes, wiki_tag))

\* "result === false": a dismissed dialog would not abandon the call
abandoned_strict(result) == result = "false"

\* "if (result == null || result == false)"
abandoned(result) == result = "null" \/ result = "false"

\* WikiLibrary.addNewEntry; dialog is the button pressed if the dialog
\* opens, sameTitleNote whether a note with file name == title is found
\* addNewEntry from "if (result == null || result == false)" on
after_prompt(L, wiki_tag, aliases, tags, result, sameTitleNote) ==
    IF abandoned(result)
    THEN [L |-> L, outcome |-> "cancelled", result |-> result]
    ELSE IF sameTitleNote
    THEN [L |-> L, outcome |-> "exists", result |-> result]
    ELSE create_and_integrate(L, wiki_tag, aliases, tags, result)

\* "if (similarities.length > 0) result = await this.foundMultipleSimilarNotesPrompt(...)"
prompt(similarities, dialog) ==
    IF Len(similarities) > 0 THEN foundMultipleSimilarNotesPrompt(dialog)
    ELSE "none"

\* WikiLibrary.addNewEntry; dialog is the button pressed if the dialog
\* opens, sameTitleNote whether a note with file name == title is found
addNewEntry(L, wiki_tag, aliases, tags, titleItems, dialog, sameTitleNote) ==
    after_prompt(L, wiki_tag, aliases, tags,
                 prompt(similarityAnalyze(L, wiki_tag, aliases, titleItems), dialog),
                 sameTitleNote)

-----------------------------------------------------------------------------
(* The library as a state machine *)

Init ==
    /\ N = <<>>
    /\ S = <<>>
    /\ nodes = <<>>
    /\ SCCs = <<>>
    /\ outerTagRefs = <<>>
    /\ duplicated = <<>>
    /\ phase = "constructed"
    /\ outcome = "none"
    /\ answer = "none"
    /\ budget = 0
    /\ calls = <<>>

Commit(L) ==
    /\ N' = L.N
    /\ S' = L.S
    /\ nodes' = L.nodes
    /\ SCCs' = L.SCCs
    /\ outerTagRefs' = L.outerTagRefs
    /\ duplicated' = L.duplicated

\* the library a start-up step leaves, and how the step ended
Started(L, done) ==
    /\ Commit(L)
    /\ outcome' = IF L.err = "" THEN done ELSE L.err

\* the library addNewEntry leaves, how the call ended, the dialog's result
Ended(R) ==
    /\ Commit(R.L)
    /\ outcome' = R.outcome
    /\ answer' = R.result

\* initialize(), first half: await this.init_graph()
InitGraph ==
    /\ phase = "constructed"
    /\ \E vault \in Vaults :
          /\ Started(init_graph(Lib, vault), "built")
          /\ budget' = MaxNodes - Len(vault)
    /\ phase' = "built"
    /\ UNCHANGED <<answer, calls>>

\* initialize(), second half: await this.apply_tag_inheritance(true)
ApplyTagInheritance ==
    /\ phase = "built"
    /\ outcome = "built"
    /\ Started(apply_tag_inheritance(Lib, TRUE), "propagated")
    /\ phase' = IF outcome' = "propagated" THEN "ready" ELSE "failed"
    /\ UNCHANGED <<answer, budget, calls>>

\* identifiers named so far, by the documents read and the notes created
Used == UNION {{N[i].wiki_tag} \cup Range(N[i].file_tags) : i \in 1..Len(N)}

\* what Command_CreateNewWikiEntry passes on for one name that is a legal
\* tag: the name is the only alias and the only title entity
AliasesFor(wiki_tag) == {<<wiki_tag>>}

TitleItemsFor(wiki_tag) == {<<wiki_tag>>}

\* Command_CreateNewWikiEntry -> addNewEntry
AddNewEntry ==
    /\ phase = "ready"
    /\ budget > 0
    /\ \E wiki_tag \in Tags, tags \in NewTagLists, dialog \in Answers, sameTitleNote \in BOOLEAN :
       \E aliases \in AliasesFor(wiki_tag), titleItems \in TitleItemsFor(wiki_tag) :
          /\ ~includes(tags, wiki_tag)
          /\ NamedInOrder(Used, <<wiki_tag>> \o tags)
          /\ IF sameTitleNote THEN Len(nodes) > 0 /\ dialog = "proceed" /\ tags = <<>>
             ELSE TRUE
          /\ IF dialog # "proceed"
             THEN tags = <<>> /\ Len(similarityAnalyze(Lib, wiki_tag, aliases, titleItems)) > 0
             ELSE TRUE
          /\ Ended(addNewEntry(Lib, wiki_tag, aliases, tags, titleItems, dialog, sameTitleNote))
    /\ budget' = budget - 1
    /\ UNCHANGED <<phase, calls>>

Next ==
    \/ InitGraph
    \/ ApplyTagInheritance
    \/ AddNewEntry

Spec == Init /\ [][Next]_vars

-----------------------------------------------------------------------------
(* Start-up alone, over larger vaults *)

\* tags fields of their documents
StartTagLists ==
    {<<>>} \cup {<<t>> : t \in StartTags}
           \cup UNION {{<<Order[i], Order[j]>> : j \in (i + 1)..Len(Order)} : i \in 1..Len(Order)}

\* wiki notes only: the note type plays no part in start-up
StartDocs ==
    [wiki_tag : StartTags, tags : StartTagLists, aliases : AliasLists, note_type : {"wiki"},
     frontmatter : {TRUE}]

\* the vaults of n documents with n different wiki-tags, their identifiers
\* named in order
RECURSIVE VaultsOfLen(_)
VaultsOfLen(n) ==
    IF n = 0 THEN {<<>>}
    ELSE UNION {{Append(v, d) : d \in {e \in StartDocs :
                                          /\ \A i \in 1..Len(v) : v[i].wiki_tag # e.wiki_tag
                                          /\ NamedInOrder(Range(Idents(v)), Idents(<<e>>))}}
                : v \in VaultsOfLen(n - 1)}

StartVaults(most) == UNION {VaultsOfLen(n) : n \in 0..most}

\* initialize(), first half, in a session where no entry is created
InitGraphOnly ==
    /\ phase = "constructed"
    /\ \E vault \in StartVaults(MaxStartDocs) :
          Started(init_graph(Lib, vault), "built")
    /\ budget' = 0
    /\ phase' = "built"
    /\ UNCHANGED <<answer, calls>>

StartNext ==
    \/ InitGraphOnly
    \/ ApplyTagInheritance

StartSpec == Init /\ [][StartNext]_vars

-----------------------------------------------------------------------------
(* Start-up over vaults with irregular documents *)

\* documents of such a vault
MaxScanDocs == 3

\* a markdown file without a header block: getFrontMatterInfo finds no
\* frontmatter and parseYaml returns nothing
NoHeader ==
    [wiki_tag |-> Undefined, tags |-> <<>>, aliases |-> <<>>, note_type |-> "wiki",
     frontmatter |-> FALSE]

\* the regular documents, wiki notes whose header has no wiki-tag field,
\* and the file without a header
ScanDocs ==
    Docs \cup [wiki_tag : {Undefined}, tags : {<<>>, <<"a">>}, aliases : AliasLists,
               note_type : {"wiki"}, frontmatter : {TRUE}]
         \cup {NoHeader}

ScanVaults(most) ==
    {v \in UNION {[1..n -> ScanDocs] : n \in 0..most} : NamedInOrder({}, Idents(v))}

\* initialize(), first half, over such a vault; one entry may be created
\* afterwards
ScanGraph ==
    /\ phase = "constructed"
    /\ \E vault \in ScanVaults(MaxScanDocs) :
          Started(init_graph(Lib, vault), "built")
    /\ budget' = 1
    /\ phase' = "built"
    /\ UNCHANGED <<answer, calls>>

\* what parse_wiki_input makes of one or two names typed into the prompt:
\* the names are the aliases
NamesFor(wiki_tag) ==
    {<<wiki_tag>>} \cup {<<wiki_tag, other>> : other \in Tags \ {wiki_tag}}

\* generate_wiki_title_and_wikiTag: the first name of each kind is a title
\* entity, so a second name is one if it is of another kind than the first
TitleEntitiesFor(names) == {<<names[1]>>, names}

\* Command_CreateNewWikiEntry -> addNewEntry, for one or two names
AddNamedEntry ==
    /\ phase = "ready"
    /\ budget > 0
    /\ \E wiki_tag \in Tags, tags \in NewTagLists, dialog \in Answers :
       \E aliases \in NamesFor(wiki_tag) :
       \E titleItems \in TitleEntitiesFor(aliases) :
          /\ ~includes(tags, wiki_tag)
          /\ NamedInOrder(Used, <<wiki_tag>> \o tags)
          /\ IF dialog # "proceed"
             THEN tags = <<>> /\ Len(similarityAnalyze(Lib, wiki_tag, aliases, titleItems)) > 0
             ELSE TRUE
          /\ Ended(addNewEntry(Lib, wiki_tag, aliases, tags, titleItems, dialog, FALSE))
    /\ budget' = budget - 1
    /\ UNCHANGED <<phase, calls>>

ScanNext ==
    \/ ScanGraph
    \/ ApplyTagInheritance
    \/ AddNamedEntry

ScanSpec == Init /\ [][ScanNext]_vars

-----------------------------------------------------------------------------
(* addNewEntry as the command callback runs it: not awaited, suspended at
   its awaits *)

\* one frame of apply_tag_inheritance_rec: the component, the accumulator,
\* the next member, the next child, whether line 464 has run
NewFrame(scc, inheritTags) ==
    [scc |-> scc, inheritTags |-> inheritTags, j |-> 1, i |-> 1, spread |-> FALSE]

\* how far a run of the propagation got: the library, the frames of the
\* calls in progress, the node whose file is being read (0 when finished)
Progress(L, stack, saving, stages) ==
    [L |-> L, stack |-> stack, saving |-> saving, stages |-> stages]

\* apply_tag_inheritance_rec(.., true) up to the next file it has to read
\* (line 142), or to its end
RECURSIVE prop_run(_, _, _)
prop_run(L, stack, stages) ==
    IF L.err # "" \/ stack = <<>> THEN Progress(L, <<>>, 0, stages)
    ELSE LET top == Len(stack)
             f   == stack[top]
             s   == f.scc
         IN  IF ~f.spread /\ f.j <= Len(L.S[s].nodes)
             THEN LET n == L.S[s].nodes[f.j]
                  IN  IF n = Hole THEN Progress(TypeError(L), <<>>, 0, stages)
                      ELSE IF save_needed(add_inherit_tags(L.N[n], f.inheritTags))
                      THEN Progress([L EXCEPT !.N[n] = add_inherit_tags(@, f.inheritTags)],
                                    stack, n, stages)
                      ELSE prop_run([L EXCEPT !.N[n] = add_inherit_tags(@, f.inheritTags)],
                                    [stack EXCEPT ![top].j = @ + 1], stages)
             ELSE IF ~f.spread
             THEN prop_run(L,
                           [stack EXCEPT
                              ![top].spread = TRUE,
                              ![top].inheritTags =
                                  @ \cup {L.N[n].wiki_tag : n \in Range(L.S[s].nodes) \ {Hole}}],
                           stages)
             ELSE IF f.i <= Len(L.S[s].children)
             THEN LET child == L.S[s].children[f.i]
                  IN  IF child = Hole THEN Progress(TypeError(L), <<>>, 0, stages)
                      ELSE IF \E k \in 1..top : stack[k].scc = child
                      THEN Progress([L EXCEPT !.err = "diverges"], <<>>, 0, stages)
                      ELSE prop_run(L,
                                    Append([stack EXCEPT ![top].i = @ + 1],
                                           NewFrame(child, f.inheritTags)),
                                    stages)
             ELSE prop_run(L, SubSeq(stack, 1, top - 1), stages)

\* lines 714-716 for a call: the propagation from the new component
call_propagate(L, newSCC) ==
    IF L.err # "" THEN Progress(L, <<>>, 0, <<"EdgeLinking", "CycleDetection">>)
    ELSE prop_run(L,
                  <<NewFrame(newSCC,
                             UNION {L.N[n].inheritTags : n \in Range(L.S[newSCC].nodes) \ {Hole}})>>,
                  <<"EdgeLinking", "CycleDetection", "Repropagation">>)

\* lines 622-716 for a call whose node has been linked to its parents
call_linked(L, wiki_tag, newNode, newSCC) ==
    IF L.err # "" \/ ~Has(L.outerTagRefs, wiki_tag)
    THEN Progress(L, <<>>, 0, <<"EdgeLinking">>)
    ELSE call_propagate(
             close_cycle(
                 forget_subscribers(
                     link_subscribers(L, newNode, newSCC, Get(L.outerTagRefs, wiki_tag), 1),
                     wiki_tag),
                 wiki_tag, newSCC),
             newSCC)

\* lines 575-716 for a call whose node has just been created
call_integrate(L, wiki_tag, newSCC) ==
    IF Has(L.nodes, wiki_tag)
    THEN Progress(record_duplicate(L, wiki_tag, Len(L.N)), <<>>, 0, <<>>)
    ELSE call_linked(link_new_node(add_scc(L, wiki_tag, Len(L.N)), Len(L.N), newSCC, 1),
                     wiki_tag, Len(L.N), newSCC)

\* calls that may overlap
MaxOverlap == 2

\* a call of addNewEntry suspended at "await this.app.vault.create" /
\* "await Node.createAsync" (lines 562, 574); with: the calls in progress
\* when it began
NewCall(wiki_tag, aliases, tags, result, with) ==
    [pc |-> "creating", wiki_tag |-> wiki_tag, aliases |-> aliases, tags |-> tags,
     result |-> result, newNode |-> 0, newSCC |-> 0, branch |-> "none",
     stack |-> <<>>, saving |-> 0, stages |-> <<>>, err |-> "", with |-> with]

InFlight == {i \in 1..Len(calls) : calls[i].pc # "done"}

\* identifiers named so far, those of the calls in progress included
AsyncUsed ==
    Used \cup UNION {{calls[i].wiki_tag} \cup Range(calls[i].tags) : i \in 1..Len(calls)}

\* the calls after addNewEntry has passed lines 519-543
begun(wiki_tag, aliases, tags, result, sameTitleNote) ==
    IF abandoned(result) \/ sameTitleNote THEN calls
    ELSE IF InFlight = {} THEN <<NewCall(wiki_tag, aliases, tags, result, {})>>
    ELSE Append(calls, NewCall(wiki_tag, aliases, tags, result, InFlight))

begun_outcome(result, sameTitleNote) ==
    IF abandoned(result) THEN "cancelled"
    ELSE IF sameTitleNote THEN "exists"
    ELSE "started"

\* Command_CreateNewWikiEntry starts addNewEntry and returns; the call runs
\* to its first await on the vault
Begin ==
    /\ phase = "ready"
    /\ budget > 0
    /\ InFlight = {} \/ Len(calls) < MaxOverlap
    /\ \E wiki_tag \in Tags, tags \in NewTagLists, dialog \in Answers, sameTitleNote \in BOOLEAN :
       \E aliases \in AliasesFor(wiki_tag), titleItems \in TitleItemsFor(wiki_tag) :
          /\ ~includes(tags, wiki_tag)
          /\ NamedInOrder(AsyncUsed, <<wiki_tag>> \o tags)
          /\ IF sameTitleNote THEN Len(nodes) > 0 /\ dialog = "proceed" /\ tags = <<>>
             ELSE TRUE
          /\ IF dialog # "proceed"
             THEN tags = <<>> /\ Len(similarityAnalyze(Lib, wiki_tag, aliases, titleItems)) > 0
             ELSE TRUE
          /\ answer' = prompt(similarityAnalyze(Lib, wiki_tag, aliases, titleItems), dialog)
          /\ calls' = begun(wiki_tag, aliases, tags, answer', sameTitleNote)
          /\ outcome' = begun_outcome(answer', sameTitleNote)
    /\ budget' = budget - 1
    /\ UNCHANGED <<N, S, nodes, SCCs, outerTagRefs, duplicated, phase>>

\* the call as it enters line 575
call_entered(c) ==
    [c EXCEPT !.newNode = Len(N) + 1,
              !.newSCC = Len(S) + 1,
              !.branch = IF Has(nodes, c.wiki_tag) THEN "duplicate" ELSE "unique"]

\* what a call leaves when it is suspended again or returns (lines 718-719
\* on the unique branch)
settled_lib(c, R) ==
    IF R.saving = 0 /\ c.branch = "unique"
    THEN register(R.L, c.wiki_tag, c.newNode, c.newSCC)
    ELSE R.L

settled_call(c, R) ==
    [c EXCEPT !.pc = IF R.saving = 0 THEN "done" ELSE "saving",
              !.stack = R.stack,
              !.saving = R.saving,
              !.stages = R.stages,
              !.err = R.L.err]

settled_outcome(c, R) ==
    IF R.L.err # "" THEN R.L.err
    ELSE IF R.saving # 0 THEN "suspended"
    ELSE IF c.branch = "duplicate" THEN "duplicate"
    ELSE "persisted"

Settle(i, c, R) ==
    /\ Commit(settled_lib(c, R))
    /\ calls' = [calls EXCEPT ![i] = settled_call(c, R)]
    /\ outcome' = settled_outcome(c, R)

\* the vault has created the file and the node: the call runs from line 575
\* to the next file it has to read, or to its end
Integrate ==
    /\ phase = "ready"
    /\ \E i \in 1..Len(calls) :
          /\ calls[i].pc = "creating"
          /\ Settle(i, call_entered(calls[i]),
                    call_integrate(create_node(Lib, calls[i].wiki_tag, calls[i].aliases,
                                               calls[i].tags),
                                   calls[i].wiki_tag, Len(S) + 1))
    /\ UNCHANGED <<phase, answer, budget>>

\* the file of the node being saved has been read: the call writes it
\* (lines 142-161) and runs on
Resume ==
    /\ phase = "ready"
    /\ \E i \in 1..Len(calls) :
          /\ calls[i].pc = "saving"
          /\ Settle(i, calls[i],
                    prop_run([Lib EXCEPT !.N[calls[i].saving] = save_write(@)],
                             [calls[i].stack EXCEPT ![Len(calls[i].stack)].j = @ + 1],
                             calls[i].stages))
    /\ UNCHANGED <<phase, answer, budget>>

AsyncNext ==
    \/ InitGraph
    \/ ApplyTagInheritance
    \/ Begin
    \/ Integrate
    \/ Resume

AsyncSpec == Init /\ [][AsyncNext]_vars

-----------------------------------------------------------------------------
(* Reading the graph *)

RECURSIVE ReachSet(_, _, _)
ReachSet(succ, frontier, seen) ==
    IF frontier = {} THEN seen
    ELSE LET nxt == UNION {succ[x] : x \in frontier} \ seen
         IN  ReachSet(succ, nxt, seen \cup nxt)

\* what is reached from x in one or more steps
ReachPlus(succ, x) == ReachSet(succ, succ[x], succ[x])

\* what is reached from the set X in zero or more steps
ReachStar(succ, X) == ReachSet(succ, X, X)

nodeParents == [n \in 1..Len(N) |-> Range(N[n].parents) \ {Hole}]

sccParents == [s \in 1..Len(S) |-> Range(S[s].parents) \ {Hole}]

sccChildren == [s \in 1..Len(S) |-> Range(S[s].children) \ {Hole}]

sccNeighbours == [s \in 1..Len(S) |-> sccParents[s] \cup sccChildren[s]]

TableNodes == Values(nodes)

TableSCCs == Values(SCCs)

Members(s) == Range(S[s].nodes) \ {Hole}

\* the components met when the parent and child lists are followed from
\* the components of the SCC table
ComponentGraph == ReachStar(sccNeighbours, TableSCCs)

Built == phase \in {"built", "ready"}

\* the last operation ran to its end
Completed == outcome \in {"built", "propagated", "persisted", "duplicate", "cancelled", "exists"}

\* the last operation was an addNewEntry that created and integrated a note
Inserted == outcome \in {"persisted", "duplicate"}

\* the node created by the last addNewEntry
NewestNode == Len(N)

-----------------------------------------------------------------------------
(* Claims *)

\* C1: after init_graph and after any sequence of insertions, following
\* the parent lists or the child lists of the components never leads from
\* a component back to itself.
C1_ComponentGraphAcyclic ==
    (Built /\ Completed) =>
        \A c \in ComponentGraph :
            c \notin ReachPlus(sccParents, c) /\ c \notin ReachPlus(sccChildren, c)

\* C2: after init_graph and after every completed addNewEntry, every node
\* of the node table is a member of exactly one component of the SCC table.
C2_ExactlyOneComponent ==
    (Built /\ Completed) =>
        \A n \in TableNodes : Cardinality({s \in TableSCCs : n \in Members(s)}) = 1

\* parent edges between the members of one component
insideParents(s) == [n \in Members(s) |-> nodeParents[n] \cap Members(s)]

\* parent edges between nodes of the node table
tableParents == [n \in 1..Len(N) |-> IF n \in TableNodes THEN nodeParents[n] \cap TableNodes ELSE {}]

\* C3: after init_graph and after every completed addNewEntry, every
\* component is a maximal strongly connected set: its members reach each
\* other through parent edges inside it, and no node outside it is both
\* reached from it and reaches back into it.
C3_ComponentsAreSCCs ==
    (Built /\ Completed) =>
        \A s \in TableSCCs :
            /\ \A x \in Members(s) : \A y \in Members(s) \ {x} :
                   y \in ReachPlus(insideParents(s), x)
            /\ \A z \in TableNodes \ Members(s) :
                   ~ /\ z \in ReachStar(tableParents, Members(s) \cap TableNodes)
                     /\ ReachStar(tableParents, {z}) \cap Members(s) # {}

\* the identifiers reached from n by one or more parent edges
Ancestors(n) == {N[p].wiki_tag : p \in ReachPlus(nodeParents, n)}

\* a propagation has just run: the full one after the build, or the scoped
\* one of an insertion whose new node had subscribers waiting
Propagated ==
    /\ phase = "ready"
    /\ \/ outcome = "propagated"
       \/ outcome = "persisted" /\ N[NewestNode].children # <<>>

\* C4: after a propagation, the inherited tags of every node (as held in
\* memory or as recorded for its document) and its explicit tags are
\* together its declared tags plus every identifier reached by one or more
\* parent edges; the node's own identifier is left out of the comparison.
C4_UnionCorrect ==
    Propagated =>
        \A n \in TableNodes :
            \E I \in {N[n].inheritTags, N[n].original_inheritTags} :
                I \cup Range(N[n].tags) \cup {N[n].wiki_tag}
                    = Range(N[n].file_tags) \cup Ancestors(n) \cup {N[n].wiki_tag}

Tables == <<nodes, SCCs, outerTagRefs, duplicated, N, S>>

\* C5: an addNewEntry that found a similar node and was not answered with
\* proceed leaves node, SCC, outer-reference and duplicate tables as they were.
C5_DeclinedChangesNothing ==
    [][answer' \in {"false", "null"} => Tables' = Tables]_vars

C5_Witness ==
    /\ answer \in {"false", "null"}
    /\ outcome = "cancelled"
    /\ Len(nodes) > 0

\* node x lists the identifier y that no node has, and waits for it
Waits(x, y) ==
    /\ x \in TableNodes
    /\ includes(N[x].tags, y)
    /\ ~Has(nodes, y)
    /\ Has(outerTagRefs, y)
    /\ includes(Get(outerTagRefs, y), x)

\* one of the tags leads to x: it names x or a descendant of x's ancestors
LeadsTo(tags, x) ==
    \E t \in Range(tags) :
        Has(nodes, t) /\ x \in ReachStar(nodeParents, {Get(nodes, t)})

\* C6: when x waits for the missing identifier y and a note y whose tags
\* lead back to x is created, the insertion completes, one component of
\* the SCC table holds both x and the new node, and no outer reference
\* for y is left.
C6_CycleClosed ==
    [][\A x \in 1..Len(N) : \A y \in Tags :
          ( /\ Waits(x, y)
            /\ Len(N') = Len(N) + 1
            /\ N'[Len(N')].wiki_tag = y
            /\ LeadsTo(N'[Len(N')].file_tags, x) )
          => /\ outcome' = "persisted"
             /\ Cardinality({s \in Values(SCCs') :
                     {x, Len(N')} \subseteq Range(S'[s].nodes)}) = 1
             /\ ~Has(outerTagRefs', y)]_vars

\* the headers of the documents in the vault, in creation order
Headers ==
    [i \in 1..Len(N) |->
        [wiki_tag |-> N[i].wiki_tag, tags |-> N[i].file_tags,
         aliases |-> N[i].aliases, note_type |-> N[i].note_type, frontmatter |-> TRUE]]

\* a library just constructed
FreshLib ==
    [N |-> <<>>, S |-> <<>>, nodes |-> <<>>, SCCs |-> <<>>,
     outerTagRefs |-> <<>>, duplicated |-> <<>>, err |-> ""]

\* node table, partition and component adjacency of a library, with the
\* components named by the identifiers of their members
Shape(L) ==
    LET name(s) == {L.N[n].wiki_tag : n \in Range(L.S[s].nodes) \ {Hole}}
        table   == Values(L.SCCs)
    IN  [nodes     |-> {<<e.k, e.v>> : e \in Range(L.nodes)},
         partition |-> {name(s) : s \in table},
         parents   |-> UNION {{<<name(s), name(p)>> : p \in Range(L.S[s].parents) \ {Hole}} :
                                 s \in table},
         children  |-> UNION {{<<name(s), name(c)>> : c \in Range(L.S[s].children) \ {Hole}} :
                                 s \in table}]

\* every document created so far is registered: no insertion was aborted
\* half-way
AllRegistered ==
    \A n \in 1..Len(N) :
        n \in TableNodes \/ \E i \in 1..Len(duplicated) : includes(duplicated[i].v, n)

\* C7: after confirmed insertions, node table, partition and component
\* adjacency are what init_graph computes from the document headers.
C7_AgreesWithRebuild ==
    (phase = "ready" /\ Inserted /\ AllRegistered) =>
        Shape(Lib) = Shape(init_graph(FreshLib, Headers))

\* C8: after init_graph and after every addNewEntry, no key of the
\* outer-reference table is a key of the node table.
C8_OuterRefsUnresolved ==
    Built => Keys(outerTagRefs) \cap Keys(nodes) = {}

\* an insertion resolved one outer reference while another one remains
C8_Witness ==
    /\ outcome = "persisted"
    /\ N[NewestNode].children # <<>>
    /\ Len(outerTagRefs) > 0

\* C9: a node entering the graph, by init_graph or by addNewEntry, with a
\* tag that no node has gets an outer-reference entry under that tag.
C9_MissingTagIsRecorded ==
    LET entered == IF outcome = "built" THEN TableNodes
                   ELSE IF outcome = "persisted" THEN {NewestNode}
                   ELSE {}
    IN  \A n \in entered : \A t \in Range(N[n].tags) :
            t \notin Keys(nodes) =>
                /\ Has(outerTagRefs, t)
                /\ includes(Get(outerTagRefs, t), n)
                /\ \A p \in nodeParents[n] : N[p].wiki_tag # t

\* C10: no identifier is both an explicit tag and an inherited tag of a
\* node, in memory or as recorded for its document by the propagator.
C10_Disjoint ==
    \A n \in 1..Len(N) :
        (N[n].inheritTags \cup N[n].original_inheritTags) \cap Range(N[n].tags) = {}

\* an insertion whose propagation handed a node an identifier it does not
\* list itself, next to the tags it lists
C10_Witness ==
    /\ outcome = "persisted"
    /\ \E n \in TableNodes : N[n].original_inheritTags # {} /\ N[n].tags # <<>>

-----------------------------------------------------------------------------
(* Propagation run again *)

\* the nodes of the library after one more apply_tag_inheritance(true)
SecondRun == apply_tag_inheritance(Lib, TRUE).N

\* C11: after initialize() has propagated with saving, a second
\* apply_tag_inheritance(true) on the unchanged graph leaves every node of
\* the table with the inheritTags it had after the first run.
C11_SecondRunSame ==
    (phase = "ready" /\ outcome = "propagated") =>
        \A n \in TableNodes : SecondRun[n].inheritTags = N[n].inheritTags

-----------------------------------------------------------------------------
(* Propagation along several paths *)

\* no two nodes of the table share a component
Acyclic == \A s \in TableSCCs : Len(S[s].nodes) = 1

\* what the ancestor paths of n carry to it: the identifiers of all its
\* ancestors, less those it lists itself
Carried(n) == Ancestors(n) \ Range(N[n].tags)

\* C12: after the start-up propagation over a vault without cycles, a node
\* with two different parents has, in memory and as recorded for its
\* document, the union of what all its ancestor paths carry, whatever the
\* order in which the components were visited.
C12_UnionOfPaths ==
    (phase = "ready" /\ outcome = "propagated" /\ Acyclic) =>
        \A n \in TableNodes :
            Cardinality(nodeParents[n]) > 1 =>
                /\ N[n].original_inheritTags = Carried(n)
                /\ N[n].inheritTags = Carried(n)

-----------------------------------------------------------------------------
(* Duplicated identifiers *)

\* the node objects a list holds, empty slots left out
Held(list) == Range(list) \ {Hole}

\* n is listed in the duplicate group of its identifier
Grouped(n) ==
    /\ Has(duplicated, N[n].wiki_tag)
    /\ n \in Held(Get(duplicated, N[n].wiki_tag))

\* n has no edge: it lists no parent and no child, and no node of the
\* table lists it
Edgeless(n) ==
    /\ Held(N[n].parents) = {}
    /\ Held(N[n].children) = {}
    /\ \A m \in TableNodes : n \notin Held(N[m].parents) \cup Held(N[m].children)

\* C13: when init_graph has read the vault, or addNewEntry has recorded a
\* collision, any two notes with the same identifier are both in the
\* duplicate group of that identifier, neither is in the node table, and
\* neither has a parent or child edge.
C13_DuplicatesEdgeless ==
    (phase \in {"built", "ready"} /\ outcome \in {"built", "duplicate"}) =>
        \A i, j \in 1..Len(N) :
            (i # j /\ N[i].wiki_tag = N[j].wiki_tag) =>
                /\ Grouped(i)
                /\ i \notin TableNodes
                /\ ~Has(nodes, N[i].wiki_tag)
                /\ Edgeless(i)

\* C14: an identifier with a duplicate group is never a key of the node
\* table, and no node of the table carries it.
C14_DuplicatedStaysOut ==
    /\ Keys(nodes) \cap Keys(duplicated) = {}
    /\ \A n \in TableNodes : ~Has(duplicated, N[n].wiki_tag)

-----------------------------------------------------------------------------
(* The fatal errors of addNewEntry *)

\* the data-model invariants hold and the last operation ended normally
WellFormed ==
    /\ phase = "ready"
    /\ Completed
    /\ C1_ComponentGraphAcyclic
    /\ C2_ExactlyOneComponent
    /\ C3_ComponentsAreSCCs
    /\ C8_OuterRefsUnresolved
    /\ C14_DuplicatedStaysOut

\* C15: an addNewEntry that starts from a graph satisfying the data-model
\* invariants never ends with the error "more than one Super SCCs".
C15_NoSuperSCCError ==
    [][WellFormed => outcome' # "more than one Super SCCs"]_vars

\* the call is suspended in the propagation of line 716 with its node
\* linked to nodes of the graph and not yet in the node table
LinkedUnregistered(i) ==
    /\ calls[i].pc = "saving"
    /\ Held(N[calls[i].newNode].parents) \cup Held(N[calls[i].newNode].children) # {}
    /\ Held(S[calls[i].newSCC].parents) \cup Held(S[calls[i].newSCC].children) # {}
    /\ ~(Has(nodes, calls[i].wiki_tag) /\ Get(nodes, calls[i].wiki_tag) = calls[i].newNode)
    /\ ~(Has(SCCs, calls[i].wiki_tag) /\ Get(SCCs, calls[i].wiki_tag) = calls[i].newSCC)

\* C16: while the new node of a confirmed addNewEntry is linked to existing
\* nodes and components but not yet registered in the node table and the SCC
\* table, no other insertion runs: no other call begins and no other call
\* takes a step.
C16_NoOtherCallRuns ==
    [][\A i \in 1..Len(calls) :
          LinkedUnregistered(i) =>
              /\ Len(calls') = Len(calls)
              /\ \A j \in 1..Len(calls) : j # i => calls'[j] = calls[j]]_vars

\* the two calls overlapped and both returned without an error
Overlapped(i, j) ==
    /\ i \in calls[j].with
    /\ calls[i].pc = "done" /\ calls[j].pc = "done"
    /\ calls[i].err = "" /\ calls[j].err = ""

\* C17: two overlapping addNewEntry calls for the same new identifier never
\* both take the unique-identifier path.
C17_NotBothUnique ==
    \A i, j \in 1..Len(calls) :
        (Overlapped(i, j) /\ calls[i].wiki_tag = calls[j].wiki_tag) =>
            ~(calls[i].branch = "unique" /\ calls[j].branch = "unique")

\* C18: a confirmed addNewEntry of a unique identifier that reaches its
\* persisted end has gone through edge linking, cycle detection and
\* re-propagation in that order, also when no node was waiting on the
\* identifier; one that collides reaches its end through none of them.
C18_StagesOfInsertion ==
    \A i \in 1..Len(calls) :
        (calls[i].pc = "done" /\ calls[i].err = "") =>
            IF calls[i].branch = "unique"
            THEN calls[i].stages = <<"EdgeLinking", "CycleDetection", "Repropagation">>
            ELSE calls[i].stages = <<>>

-----------------------------------------------------------------------------
(* Propagation down a chain *)

\* x declares the tag of y, y the tag of z, z declares nothing
Chain(x, y, z) ==
    /\ Range(N[x].tags) = {N[y].wiki_tag}
    /\ Range(N[y].tags) = {N[z].wiki_tag}
    /\ N[z].tags = <<>>

\* n and all its ancestors declare at most one tag, the identifier of a
\* node, and none of them is its own ancestor
OnChain(n) ==
    \A m \in {n} \cup ReachPlus(nodeParents, n) :
        /\ Len(N[m].tags) <= 1
        /\ m \notin ReachPlus(nodeParents, m)
        /\ Range(N[m].tags) \subseteq Keys(nodes)

\* C19 as stated: in a chain A -> B -> C, after the full propagation A's
\* inheritTags contains B and C, B's inheritTags contains C, and C's
\* inheritTags is empty.
C19_ChainInheritTags ==
    (phase = "ready" /\ outcome = "propagated") =>
        \A x, y, z \in TableNodes :
            Chain(x, y, z) =>
                /\ {N[y].wiki_tag, N[z].wiki_tag} \subseteq N[x].inheritTags
                /\ N[z].wiki_tag \in N[y].inheritTags
                /\ N[z].inheritTags = {}

\* C19, amended: in a chain A -> B -> C, after the full propagation the
\* inherited set written for A is {C} and with A's explicit tag B covers B
\* and C, the inherited set written for B is empty, C being B's explicit
\* tag, and C's inherited sets are empty; in a chain of any length the
\* inherited set written for a node is its ancestors less its explicit tag.
C19_ChainCarried ==
    (phase = "ready" /\ outcome = "propagated") =>
        /\ \A x, y, z \in TableNodes :
              Chain(x, y, z) =>
                  /\ N[x].original_inheritTags = {N[z].wiki_tag}
                  /\ {N[y].wiki_tag, N[z].wiki_tag}
                         \subseteq Range(N[x].tags) \cup N[x].original_inheritTags
                  /\ N[y].original_inheritTags = {}
                  /\ N[z].wiki_tag \in Range(N[y].tags)
                  /\ N[z].original_inheritTags = {}
                  /\ N[z].inheritTags = {}
        /\ \A n \in TableNodes :
              OnChain(n) =>
                  /\ N[n].original_inheritTags = Carried(n)
                  /\ N[n].original_inheritTags \cup Range(N[n].tags) = Ancestors(n)

\* a chain of four documents has been propagated: its last node has the
\* two identifiers beyond its parent written as inherited
C19_Witness ==
    /\ phase = "ready"
    /\ outcome = "propagated"
    /\ \E w, x, y, z \in TableNodes :
          /\ Chain(x, y, z)
          /\ Range(N[w].tags) = {N[x].wiki_tag}
          /\ N[w].original_inheritTags = {N[y].wiki_tag, N[z].wiki_tag}
          /\ N[x].original_inheritTags = {N[z].wiki_tag}

-----------------------------------------------------------------------------
(* A parent, then its child *)

\* the node p has just been inserted, is registered, and nothing is linked
\* to it or to its component
FreshParent(p) ==
    /\ phase = "ready"
    /\ outcome = "persisted"
    /\ p = NewestNode
    /\ Has(nodes, N[p].wiki_tag) /\ Get(nodes, N[p].wiki_tag) = p
    /\ N[p].parents = <<>> /\ N[p].children = <<>>
    /\ S[N[p].scc].parents = <<>> /\ S[N[p].scc].children = <<>>

-----------------------------------------------------------------------------
(* Category notes, documents without header or wiki-tag *)

\* the node k is an ancestor of n and not one of its parents
FarAbove(k, n) == k \in ReachPlus(nodeParents, n) /\ k \notin nodeParents[n]

\* C21: after propagation, the identifier of a category-type node is in the
\* inheritTags, in memory or as written to the document, of no node two or
\* more parent-steps below it.
C21_CategoryStopsAtChildren ==
    (phase = "ready" /\ outcome \in {"propagated", "persisted"}) =>
        \A k, n \in TableNodes :
            (N[k].note_type = "category" /\ FarAbove(k, n)) =>
                N[k].wiki_tag \notin N[n].inheritTags \cup N[n].original_inheritTags

\* C22: init_graph completes whatever documents the vault holds, a document
\* without a header block included: it does not end with the exception of
\* Node.init_frontmatter_and_inherit_tags.
C22_ScanCompletes ==
    [][phase = "constructed" => outcome' = "built"]_vars

\* the node object is in no list of the tables and no node of the table
\* has an edge to it
OutOfGraph(n) ==
    /\ n \notin TableNodes
    /\ Edgeless(n)
    /\ \A i \in 1..Len(outerTagRefs) : ~includes(outerTagRefs[i].v, n)
    /\ \A i \in 1..Len(duplicated) : ~includes(duplicated[i].v, n)

\* C23: after init_graph, a document whose header has no wiki-tag field is
\* in the node table under no key and contributes no edge, outer reference
\* or duplicate group.
C23_NoWikiTagStaysOut ==
    (phase = "built" /\ outcome = "built") =>
        \A n \in 1..Len(N) : N[n].wiki_tag = Undefined => OutOfGraph(n)

-----------------------------------------------------------------------------
(* The similarity analysis *)

\* the similarity is exactly 1.0
IsOne(sim) == ~sim.nan /\ sim.num = sim.den

\* the node n is in the result with similarity 1.0
FoundAsSame(infos, n) ==
    \E i \in 1..Len(infos) : infos[i].fm = n /\ IsOne(infos[i].similarity)

\* C24: for every candidate identifier, names and title entities,
\* similarityAnalyze returns with similarity exactly 1.0 every node of the
\* table whose wiki-tag is the candidate identifier, whatever tags and
\* aliases the node has; so an insertion that ends in the duplicate table
\* has passed the confirmation dialog.
C24_SameIdentifierFound ==
    /\ phase = "ready" =>
          \A wiki_tag \in Tags : \A aliases \in NamesFor(wiki_tag) :
          \A titleEntities \in TitleEntitiesFor(aliases) : \A n \in TableNodes :
              N[n].wiki_tag = wiki_tag =>
                  FoundAsSame(similarityAnalyze(Lib, wiki_tag, aliases, titleEntities), n)
    /\ outcome = "duplicate" => answer = "true"

\* the filter of the result: similarity > 0.5 or intersection size > 1
Shown(info) == Greater(info.similarity, Frac(1, 2)) \/ info.intersection_size > 1

\* infos holds, once each, exactly the nodes of the table that pass the
\* filter, and no later item has a greater similarity than an earlier one
ExactAndSorted(infos, wiki_tag, aliases, titleEntities) ==
    /\ \A n \in TableNodes :
          Shown(similarityInfo(Lib, n, wiki_tag, aliases, titleEntities))
              <=> \E i \in 1..Len(infos) : infos[i].fm = n
    /\ \A i \in 1..Len(infos) :
          /\ infos[i].fm \in TableNodes
          /\ infos[i] = similarityInfo(Lib, infos[i].fm, wiki_tag, aliases, titleEntities)
    /\ \A i, j \in 1..Len(infos) :
          i < j => /\ infos[i].fm # infos[j].fm
                   /\ ~Greater(infos[j].similarity, infos[i].similarity)

\* C25: for every candidate identifier, names and title entities,
\* similarityAnalyze returns exactly the nodes of the table whose similarity
\* is greater than 0.5 or whose intersection size is greater than 1, in
\* non-increasing order of similarity.
C25_ExactlyTheSimilarSorted ==
    phase = "ready" =>
        \A wiki_tag \in Tags : \A aliases \in NamesFor(wiki_tag) :
        \A titleEntities \in TitleEntitiesFor(aliases) :
            ExactAndSorted(similarityAnalyze(Lib, wiki_tag, aliases, titleEntities),
                           wiki_tag, aliases, titleEntities)

-----------------------------------------------------------------------------
(* Linking a new node *)

\* an addNewEntry step that registers a new node on which no node was
\* waiting; its document has not been rewritten, so file_tags holds the
\* tags it was created with
PlainInsertion ==
    /\ phase = "ready"
    /\ outcome' = "persisted"
    /\ Len(N') = Len(N) + 1
    /\ N'[Len(N')].children = <<>>

\* the tags of the nodes named by declared that name nodes other than
\* category nodes
OneHop(declared) ==
    UNION {{t \in Range(N[Get(nodes, d)].tags) :
               Has(nodes, t) /\ N[Get(nodes, t)].note_type # "category"}
           : d \in {e \in declared : Has(nodes, e)}}

\* C26: after addNewEntry of a unique node, its explicit tags are its
\* declared tags plus, for each declared tag naming a node P, the tags of P
\* that name non-category nodes, and nothing further; and every parent of
\* the new node is in the component of a node named by a declared tag, none
\* being linked for a promoted tag alone.
C26_OneHopPromotion ==
    [][PlainInsertion =>
          /\ Range(N'[Len(N')].tags)
                = Range(N'[Len(N')].file_tags) \cup OneHop(Range(N'[Len(N')].file_tags))
          /\ \A p \in Range(N'[Len(N')].parents) :
                \E d \in Range(N'[Len(N')].file_tags) :
                    Has(nodes, d) /\ N[Get(nodes, d)].scc = N[p].scc]_vars

\* an addNewEntry step, taken after an operation that ended normally, that
\* registers a new node as a component of its own
UniqueInsertion ==
    /\ phase = "ready"
    /\ Completed
    /\ outcome' = "persisted"
    /\ Len(N') = Len(N) + 1
    /\ S'[N'[Len(N')].scc].nodes = <<Len(N')>>

\* after the step, s is a component of the SCC table whose members all
\* have the node c as child and are parents of c, and which has c's
\* component as child and is a parent of c's component
LinkedUnder(c, s) ==
    /\ \A m \in Range(S'[s].nodes) \ {Hole} :
          includes(N'[m].children, c) /\ includes(N'[c].parents, m)
    /\ includes(S'[s].children, N'[c].scc)
    /\ includes(S'[N'[c].scc].parents, s)

\* C27: after addNewEntry of a unique node, every tag written for it that
\* named a node P before the call has the new node linked under P's
\* component: the component of the SCC table that has P as member, also
\* when P was absorbed into it by an earlier merge.
C27_LinkedUnderWholeComponent ==
    [][UniqueInsertion =>
          \A d \in Range(N'[Len(N')].file_tags) :
              Has(nodes, d) =>
                  \E s \in Values(SCCs') :
                      /\ includes(S'[s].nodes, Get(nodes, d))
                      /\ LinkedUnder(Len(N'), s)]_vars

\* ---------------------------------------------------------------------
\* C28  When the cycle detection of addNewEntry merges components, the
\*      merged component's members are the union of the members of all
\*      merged components, every outside component that was a parent
\*      (child) of an absorbed component has the merged component as
\*      child (parent) and the merged component records it as parent
\*      (child), the absorbed components are gone from the SCC table, and
\*      no adjacency list of a component in the SCC table refers to an
\*      absorbed component, nor the merged component's lists to itself.
MergingInsertion ==
    /\ phase = "ready"
    /\ outcome' = "persisted"
    /\ Len(N') = Len(N) + 1
    /\ Len(S'[N'[Len(N')].scc].nodes) > 1

Absorbed ==
    {s \in TableSCCs : /\ Members(s) # {}
                       /\ Members(s) \subseteq Range(S'[N'[Len(N')].scc].nodes)}

MergedAs(m) ==
    /\ Range(S'[m].nodes) = {Len(N')} \cup UNION {Members(s) : s \in Absorbed}
    /\ \A s \in Absorbed :
          /\ \A p \in sccParents[s] \ Absorbed :
                includes(S'[p].children, m) /\ includes(S'[m].parents, p)
          /\ \A c \in sccChildren[s] \ Absorbed :
                includes(S'[c].parents, m) /\ includes(S'[m].children, c)
    /\ Absorbed \cap Values(SCCs') = {}
    /\ \A t \in Values(SCCs') :
          (Range(S'[t].parents) \cup Range(S'[t].children)) \cap Absorbed = {}
    /\ ~includes(S'[m].parents, m)
    /\ ~includes(S'[m].children, m)

C28_MergeRedirectsEdges ==
    [][MergingInsertion => MergedAs(N'[Len(N')].scc)]_vars

\* ---------------------------------------------------------------------
\* C29  When addNewEntry hits an identifier collision, afterwards no
\*      parent or child list of a remaining node or component contains
\*      the removed node, the removed singleton component or an empty
\*      slot left in their place, and a component whose only parent was
\*      the removed component has a parent list of length zero, which is
\*      what makes it a root for apply_tag_inheritance.
Collision ==
    /\ phase = "ready"
    /\ Completed
    /\ outcome' = "duplicate"

Removed == TableNodes \ Values(nodes')

RemovedSCCs == {N[e].scc : e \in {x \in Removed : Len(S[N[x].scc].nodes) = 1}}

Slots(list) == {i \in 1..Len(list) : list[i] = Hole}

CleanOf(old, new, gone) ==
    /\ Range(new) \cap gone = {}
    /\ Cardinality(Slots(new)) <= Cardinality(Slots(old))

C29_CollisionLeavesNoTrace ==
    [][Collision =>
          /\ \A n \in Values(nodes') :
                /\ CleanOf(N[n].parents, N'[n].parents, Removed)
                /\ CleanOf(N[n].children, N'[n].children, Removed)
          /\ \A t \in Values(SCCs') :
                /\ CleanOf(S[t].parents, S'[t].parents, RemovedSCCs)
                /\ CleanOf(S[t].children, S'[t].children, RemovedSCCs)
                /\ (sccParents[t] # {} /\ sccParents[t] \subseteq RemovedSCCs)
                      => Len(S'[t].parents) = 0]_vars

-----------------------------------------------------------------------------
(* Insertions into a vault with up to four identifiers *)

\* documents of such a vault
MaxDeepDocs == 3

\* documents read and notes created there
MaxDeepNodes == 4

\* tags typed into the new-entry prompt there
DeepTagLists == {<<>>} \cup {<<t>> : t \in StartTags}

\* wiki notes with up to two tags over the four identifiers, category
\* notes at the top
DeepDocs ==
    StartDocs \cup [wiki_tag : StartTags, tags : {<<>>}, aliases : AliasLists,
                    note_type : {"category"}, frontmatter : {TRUE}]

DeepVaults(most) ==
    {v \in UNION {[1..n -> DeepDocs] : n \in 0..most} : NamedInOrder({}, Idents(v))}

\* initialize(), first half, over such a vault; entries may be created
\* afterwards until there are MaxDeepNodes nodes
InitGraphDeep ==
    /\ phase = "constructed"
    /\ \E vault \in DeepVaults(MaxDeepDocs) :
          /\ Started(init_graph(Lib, vault), "built")
          /\ budget' = MaxDeepNodes - Len(vault)
    /\ phase' = "built"
    /\ UNCHANGED <<answer, calls>>

\* Command_CreateNewWikiEntry -> addNewEntry, the dialog answered Continue
AddNewEntryDeep ==
    /\ phase = "ready"
    /\ budget > 0
    /\ \E wiki_tag \in StartTags, tags \in DeepTagLists :
          /\ ~includes(tags, wiki_tag)
          /\ NamedInOrder(Used, <<wiki_tag>> \o tags)
          /\ Ended(addNewEntry(Lib, wiki_tag, <<wiki_tag>>, tags, <<wiki_tag>>, "proceed", FALSE))
    /\ budget' = budget - 1
    /\ UNCHANGED <<phase, calls>>

DeepNext ==
    \/ InitGraphDeep
    \/ ApplyTagInheritance
    \/ AddNewEntryDeep

DeepSpec == Init /\ [][DeepNext]_vars

\* ---------------------------------------------------------------------
\* C30  When an insertion closes a cycle, so that addNewEntry has
\*      components to merge, every tag that a node of the cycle had
\*      inherited before the insertion from an ancestor outside the cycle
\*      is still held for that node afterwards, is held by every member of
\*      the cycle, the new node included, and by every child of a member.
\*      A tag counts as held when it is in the node's inheritTags, in the
\*      set written to its document, or among its explicit tags.
ClosesCycle ==
    /\ phase = "ready"
    /\ Completed
    /\ Len(N') = Len(N) + 1
    /\ Len(N') \in ReachPlus(nodeParents', Len(N'))

\* the members of the cycle the new node has closed
CycleMembers ==
    {m \in 1..Len(N') : /\ m \in {Len(N')} \cup ReachPlus(nodeParents', Len(N'))
                        /\ Len(N') \in {m} \cup ReachPlus(nodeParents', m)}

\* what m had inherited, before the insertion, from outside the cycle:
\* identifiers of its ancestors that are no members of the cycle
InheritedFromOutside(m) ==
    (N[m].inheritTags \cup N[m].original_inheritTags)
        \cap {N[p].wiki_tag : p \in ReachPlus(nodeParents, m) \ CycleMembers}

HeldAfter(n) ==
    N'[n].inheritTags \cup N'[n].original_inheritTags \cup Range(N'[n].tags)

-----------------------------------------------------------------------------
(* Component edges after the build *)

\* ---------------------------------------------------------------------
\* C31  After init_graph, for every node n of the table and every parent p
\*      of n in another component, p's component is in the parent list of
\*      n's component, whichever member of its component n is.
C31_EveryMembersParents ==
    (phase = "built" /\ outcome = "built") =>
        \A n \in TableNodes :
            \A p \in nodeParents[n] :
                N[p].scc # N[n].scc => includes(S[N[n].scc].parents, N[p].scc)

\* no component is listed twice; empty slots are not entries
NoRepeat(list) ==
    \A i, j \in 1..Len(list) : (i < j /\ list[i] = list[j]) => list[i] = Hole

\* ---------------------------------------------------------------------
\* C32  After init_graph and after every addNewEntry, no parent list and
\*      no child list of a component of the SCC table contains the same
\*      component twice.
C32_EdgesListedOnce ==
    (Built /\ Completed) =>
        \A s \in TableSCCs : NoRepeat(S[s].parents) /\ NoRepeat(S[s].children)

\* ---------------------------------------------------------------------
\* C33  After every completed addNewEntry, every node of the node table
\*      has a component back-reference that is an entry of the SCC table
\*      and lists that node among its members.
C33_BackReferenceInTable ==
    (phase = "ready" /\ outcome \in {"persisted", "duplicate", "cancelled", "exists"}) =>
        \A n \in TableNodes :
            N[n].scc \in TableSCCs /\ includes(S[N[n].scc].nodes, n)

\* ---------------------------------------------------------------------
\* C34  No node's inheritTags, in memory or as written to its document,
\*      ever contains the node's own identifier.
C34_NeverInheritsItself ==
    \A n \in 1..Len(N) :
        N[n].wiki_tag \notin N[n].inheritTags \cup N[n].original_inheritTags

-----------------------------------------------------------------------------
(* The state an aborted insertion leaves *)

\* addNewEntry ends with the fatal error of the Super-SCC count
SuperSCCAbort ==
    /\ phase = "ready"
    /\ outcome' = "more than one Super SCCs"

\* ---------------------------------------------------------------------
\* C35  When addNewEntry aborts with 'more than one Super SCCs', the new
\*      node and its component exist but are in neither the node table
\*      nor the SCC table, the outer-reference entry of the new identifier
\*      is removed, and the waiting nodes, the parent nodes and their
\*      components already reference the new node and its component.
C35_AbortLeavesHalfLinked ==
    [][SuperSCCAbort =>
          /\ Len(N') = Len(N) + 1
          /\ Len(S') = Len(S) + 1
          /\ N'[Len(N')].scc = Len(S')
          /\ Len(N') \notin Values(nodes')
          /\ ~Has(nodes', N'[Len(N')].wiki_tag)
          /\ Len(S') \notin Values(SCCs')
          /\ Has(outerTagRefs, N'[Len(N')].wiki_tag)
          /\ ~Has(outerTagRefs', N'[Len(N')].wiki_tag)
          /\ \A w \in Range(Get(outerTagRefs, N'[Len(N')].wiki_tag)) :
                /\ includes(N'[w].parents, Len(N'))
                /\ includes(N'[Len(N')].children, w)
                /\ includes(S'[N[w].scc].parents, Len(S'))
                /\ includes(S'[Len(S')].children, N[w].scc)
          /\ \A t \in Range(N'[Len(N')].tags) :
                Has(nodes, t) =>
                    /\ includes(N'[Get(nodes, t)].children, Len(N'))
                    /\ includes(N'[Len(N')].parents, Get(nodes, t))
                    /\ includes(S'[N[Get(nodes, t)].scc].children, Len(S'))
                    /\ includes(S'[Len(S')].parents, N[Get(nodes, t)].scc)]_vars

\* an insertion has just aborted this way, leaving a new node with a
\* parent and a waiting child outside both tables
C35_Witness ==
    /\ phase = "ready"
    /\ outcome = "more than one Super SCCs"
    /\ Len(N) > 0
    /\ NewestNode \notin TableNodes
    /\ N[NewestNode].parents # <<>>
    /\ N[NewestNode].children # <<>>
    /\ ~Has(outerTagRefs, N[NewestNode].wiki_tag)

\* ---------------------------------------------------------------------
\* C36  After init_graph and after every completed addNewEntry, for all
\*      components A and B of the SCC table, A is in the parent list of B
\*      exactly when B is in the child list of A.
C36_AdjacencySymmetric ==
    (Built /\ Completed) =>
        \A A, B \in TableSCCs :
            includes(S[B].parents, A) <=> includes(S[A].children, B)

\* ---------------------------------------------------------------------
\* C37  The SCC table never loses a component that still has members: if
\*      an addNewEntry that runs to its end takes a component out of the
\*      SCC table, each of its members that stays in the node table is a
\*      member of a component of the SCC table afterwards.
C37_NoComponentLost ==
    [][(phase = "ready" /\ Completed /\ outcome' \in {"persisted", "duplicate"}) =>
          \A s \in Values(SCCs) \ Values(SCCs') :
              \A m \in Members(s) \cap Values(nodes') :
                  \E t \in Values(SCCs') : includes(S'[t].nodes, m)]_vars

-----------------------------------------------------------------------------
(* Termination of an insertion *)

\* ---------------------------------------------------------------------
\* C38  Every addNewEntry call and the propagation it triggers comes to an
\*      end, by a cancellation, a recorded duplicate, a persisted note or
\*      a fatal error: no call repeats the same recursive calls for ever,
\*      whatever insertions, aborted ones included, went before.
C38_EveryCallEnds ==
    phase = "ready" => outcome # "diverges"

\* ---------------------------------------------------------------------
\* C39  A duplicate group only grows: a node listed under an identifier
\*      in the duplicate table is still listed under that identifier
\*      after every later step of the build and every later addNewEntry.
GroupsKept ==
    \A i \in 1..Len(duplicated) :
        /\ Has(duplicated', duplicated[i].k)
        /\ Range(duplicated[i].v) \subseteq Range(Get(duplicated', duplicated[i].k))

C39_DuplicateGroupOnlyGrows ==
    [][GroupsKept]_vars

\* ---------------------------------------------------------------------
\* C40  After a propagation with saving (the one initialize runs and the
\*      re-propagation of addNewEntry) every visited node holds in memory
\*      the inherited tags recorded for its document: saving a node does
\*      not empty or change its inheritTags.
Visited ==
    IF outcome = "propagated"
    THEN ReachStar(sccChildren, {s \in TableSCCs : Len(S[s].parents) = 0})
    ELSE ReachStar(sccChildren, {N[NewestNode].scc})

AfterSavingPropagation ==
    /\ phase = "ready"
    /\ \/ outcome = "propagated"
       \/ outcome = "persisted" /\ Len(N) > 0 /\ NewestNode \in TableNodes

C40_MemoryMatchesRecord ==
    AfterSavingPropagation =>
        \A s \in Visited : \A n \in Members(s) :
            N[n].inheritTags = N[n].original_inheritTags

=========================================================================
